---- MODULE Spec2Model ----
(***************************************************************************)
(* SLIP framing (meandrewdev/slip, slip.go): Writer.WritePacket and        *)
(* Reader.ReadPacket, each guarded by its own mutex, over an io.Writer /   *)
(* io.Reader byte channel.                                                 *)
(***************************************************************************)
EXTENDS Integers, Sequences, FiniteSets, TLC

(* ---- protocol constants, slip.go:33-38 ---- *)
END == 192
ESC == 219
ESC_END == 220
ESC_ESC == 221

(* ---- bounds ---- *)
MaxLen == 2        \* longest packet on the linked channel
MaxFrames == 1     \* WritePacket calls on the linked channel
MaxPkt == 1        \* longest packet of the concurrent writers
MaxWCalls == 2     \* WritePacket calls of the concurrent writers
MaxStream == 4     \* longest raw input stream of the readers
MaxRCalls == 3     \* ReadPacket calls on one Reader
MaxNoise == 2      \* longest run of line noise ahead of the frames
MaxBurst == 2      \* WritePacket calls behind the noise
MaxBurstLen == 1   \* longest packet behind the noise

(* The byte values that matter to the codec, and one ordinary byte. *)
Byte == {0, END, ESC, ESC_END, ESC_ESC}

(* The payload bytes of the concurrent writers: one plain, one stuffed. *)
EncByte == {0, END}

(* The payload bytes on the linked channel: the four reserved values, of   *)
(* which ESC_END and ESC_ESC are plain bytes to the writer.                *)
LinkByte == {END, ESC, ESC_END, ESC_ESC}

(* The bytes of the streams of the termination check: a plain byte, END,  *)
(* ESC and one of the two bytes the inner switch of the reader names.      *)
LiveByte == {0, END, ESC, ESC_END}

(* The bytes of line noise: one plain byte and the escape byte. *)
NoiseByte == {0, ESC}

SeqsOver(B, n) == UNION {[1..k -> B] : k \in 0..n}

ByteSeqs(n) == SeqsOver(Byte, n)

Writers == {1, 2}
Readers == {1, 2}
LinkWriters == {1}
LinkReaders == {1}

NoErr == "nil"
EOF == "EOF"
ErrWrite == "ErrWrite"
EndModes == {"eof", "zero", "dataerr"}

Last(s) == s[Len(s)]

VARIABLES
  wmu,      \* Writer.mu: 0 when free, else the goroutine holding it
  wpc,      \* position of each writer goroutine in WritePacket
  wp,       \* argument p of the current call
  wi,       \* index of the range loop over p
  wbuf,     \* local buf
  wn,       \* bytes of buf the channel has accepted inside w.Write
  werr,     \* value being returned
  wcnt,     \* WritePacket calls made so far
  wcid,     \* position of the current call in wlocks
  wlocks,   \* history: calls in the order they acquired the lock
  wcalls,   \* history: arguments of the w.Write calls, in order
  wrets,    \* history: returned calls and their error
  wire,     \* history: bytes accepted by the output channel, tagged by call
  rmu,      \* Reader.mu
  rpc,      \* position of each reader goroutine in ReadPacket
  rbuf,     \* local buf
  rerr,     \* named result err
  rcnt,     \* ReadPacket calls made so far
  rcid,     \* position of the current call in lock order
  rnext,    \* number of ReadPacket calls that acquired the lock
  rlog,     \* history: results returned, in order
  rtaken,   \* history: for each byte consumed, the call that read it
  rstream,  \* unread bytes of the input channel
  rinit,    \* bytes preloaded in the input channel
  closed,   \* input channel delivers no more bytes after rstream
  linked,   \* the output channel is an in-memory buffer, later handed to the reader
  endMode,  \* how the input channel signals end of data
  wmax      \* number of WritePacket calls the callers make at most

wvars == <<wmu, wpc, wp, wi, wbuf, wn, werr, wcnt, wcid, wlocks, wcalls, wrets, wire>>
rvars == <<rmu, rpc, rbuf, rerr, rcnt, rcid, rnext, rlog, rtaken>>
cvars == <<rstream, rinit, closed, linked, endMode, wmax>>
vars == <<wvars, rvars, cvars>>

(* ---- NewWriter / NewReader ---- *)
InitWriter ==
  /\ wmu = 0
  /\ wpc = [w \in Writers |-> "idle"]
  /\ wp = [w \in Writers |-> <<>>]
  /\ wi = [w \in Writers |-> 1]
  /\ wbuf = [w \in Writers |-> <<>>]
  /\ wn = [w \in Writers |-> 0]
  /\ werr = [w \in Writers |-> NoErr]
  /\ wcnt = 0
  /\ wcid = [w \in Writers |-> 0]
  /\ wlocks = <<>>
  /\ wcalls = <<>>
  /\ wrets = <<>>
  /\ wire = <<>>

InitReader ==
  /\ rmu = 0
  /\ rpc = [r \in Readers |-> "idle"]
  /\ rbuf = [r \in Readers |-> <<>>]
  /\ rerr = [r \in Readers |-> NoErr]
  /\ rcnt = 0
  /\ rcid = [r \in Readers |-> 0]
  /\ rnext = 0
  /\ rlog = <<>>
  /\ rtaken = <<>>

(* Writers only: the output channel is an opaque sink. *)
InitEnc ==
  /\ InitWriter /\ InitReader
  /\ rstream = <<>> /\ rinit = <<>>
  /\ closed = FALSE /\ linked = FALSE
  /\ endMode = "eof"
  /\ wmax = MaxWCalls

(* Readers only: the input channel holds an arbitrary finite byte stream. *)
InitDec ==
  /\ InitWriter /\ InitReader
  /\ rinit \in ByteSeqs(MaxStream)
  /\ rstream = rinit
  /\ closed = TRUE /\ linked = FALSE
  /\ endMode \in EndModes
  /\ wmax = 0

(* Readers only, for the termination check. *)
InitDecLive ==
  /\ InitWriter /\ InitReader
  /\ rinit \in SeqsOver(LiveByte, MaxStream)
  /\ rstream = rinit
  /\ closed = TRUE /\ linked = FALSE
  /\ endMode \in EndModes
  /\ wmax = 0

(* One writer fills an in-memory buffer, which a reader then drains. *)
InitLink ==
  /\ InitWriter /\ InitReader
  /\ rstream = <<>> /\ rinit = <<>>
  /\ closed = FALSE /\ linked = TRUE
  /\ endMode = "eof"
  /\ wmax = MaxFrames

(* Line noise sits in the buffer before the writer puts its frames there. *)
InitStream ==
  /\ InitWriter /\ InitReader
  /\ rinit \in SeqsOver(NoiseByte, MaxNoise)
  /\ rstream = <<>>
  /\ closed = FALSE /\ linked = TRUE
  /\ endMode = "eof"
  /\ wmax = MaxBurst

(* ======================= Writer.WritePacket ======================= *)

(* variants of the switch with a plausible slip *)
Stuff_swapped(b) ==
  IF b = END THEN <<ESC, ESC_ESC>>
  ELSE IF b = ESC THEN <<ESC, ESC_END>>
  ELSE <<b>>

Stuff_rawEND(b) ==
  IF b = ESC THEN <<ESC, ESC_ESC>>
  ELSE <<b>>

Stuff_bareESC(b) ==
  IF b = END THEN <<ESC, ESC_END>>
  ELSE <<b>>

(* the switch on one payload byte, slip.go:56-87 *)
Stuff(b) ==
  IF b = END THEN <<ESC, ESC_END>>
  ELSE IF b = ESC THEN <<ESC, ESC_ESC>>
  ELSE <<b>>

(* a goroutine calls WritePacket(p) *)
WCall(w, p) ==
  /\ wpc[w] = "idle"
  /\ wcnt < wmax
  /\ ~closed
  /\ wpc' = [wpc EXCEPT ![w] = "lock"]
  /\ wp' = [wp EXCEPT ![w] = p]
  /\ wcnt' = wcnt + 1
  /\ UNCHANGED <<wmu, wi, wbuf, wn, werr, wcid, wlocks, wcalls, wrets, wire>>
  /\ UNCHANGED <<rvars, cvars>>

(* variant: the call does not wait for the mutex *)
WLock_nomutex(w) ==
  /\ wpc[w] = "lock"
  /\ wmu' = w
  /\ wbuf' = [wbuf EXCEPT ![w] = <<END>>]
  /\ wi' = [wi EXCEPT ![w] = 1]
  /\ wn' = [wn EXCEPT ![w] = 0]
  /\ wlocks' = Append(wlocks, [who |-> w, p |-> wp[w]])
  /\ wcid' = [wcid EXCEPT ![w] = Len(wlocks) + 1]
  /\ wpc' = [wpc EXCEPT ![w] = "loop"]
  /\ UNCHANGED <<wp, werr, wcnt, wcalls, wrets, wire>>
  /\ UNCHANGED <<rvars, cvars>>

(* variant: the frame is started without its leading END *)
WLock_noleading(w) ==
  /\ wpc[w] = "lock"
  /\ wmu = 0
  /\ wmu' = w
  /\ wbuf' = [wbuf EXCEPT ![w] = <<>>]
  /\ wi' = [wi EXCEPT ![w] = 1]
  /\ wn' = [wn EXCEPT ![w] = 0]
  /\ wlocks' = Append(wlocks, [who |-> w, p |-> wp[w]])
  /\ wcid' = [wcid EXCEPT ![w] = Len(wlocks) + 1]
  /\ wpc' = [wpc EXCEPT ![w] = "loop"]
  /\ UNCHANGED <<wp, werr, wcnt, wcalls, wrets, wire>>
  /\ UNCHANGED <<rvars, cvars>>

(* s.mu.Lock(); buf := &bytes.Buffer{}; buf.WriteByte(END) *)
WLock(w) ==
  /\ wpc[w] = "lock"
  /\ wmu = 0
  /\ wmu' = w
  /\ wbuf' = [wbuf EXCEPT ![w] = <<END>>]
  /\ wi' = [wi EXCEPT ![w] = 1]
  /\ wn' = [wn EXCEPT ![w] = 0]
  /\ wlocks' = Append(wlocks, [who |-> w, p |-> wp[w]])
  /\ wcid' = [wcid EXCEPT ![w] = Len(wlocks) + 1]
  /\ wpc' = [wpc EXCEPT ![w] = "loop"]
  /\ UNCHANGED <<wp, werr, wcnt, wcalls, wrets, wire>>
  /\ UNCHANGED <<rvars, cvars>>

(* one iteration of for _, b := range p *)
WLoop(w) ==
  /\ wpc[w] = "loop"
  /\ wi[w] <= Len(wp[w])
  /\ wbuf' = [wbuf EXCEPT ![w] = @ \o Stuff(wp[w][wi[w]])]
  /\ wi' = [wi EXCEPT ![w] = @ + 1]
  /\ UNCHANGED <<wmu, wpc, wp, wn, werr, wcnt, wcid, wlocks, wcalls, wrets, wire>>
  /\ UNCHANGED <<rvars, cvars>>

(* variant: the frame is closed without its trailing END *)
WEnd_notrail(w) ==
  /\ wpc[w] = "loop"
  /\ wi[w] > Len(wp[w])
  /\ wbuf' = wbuf
  /\ wpc' = [wpc EXCEPT ![w] = "write"]
  /\ UNCHANGED <<wmu, wp, wi, wn, werr, wcnt, wcid, wlocks, wcalls, wrets, wire>>
  /\ UNCHANGED <<rvars, cvars>>

(* the loop is over: buf.WriteByte(END) *)
WEnd(w) ==
  /\ wpc[w] = "loop"
  /\ wi[w] > Len(wp[w])
  /\ wbuf' = [wbuf EXCEPT ![w] = Append(@, END)]
  /\ wpc' = [wpc EXCEPT ![w] = "write"]
  /\ UNCHANGED <<wmu, wp, wi, wn, werr, wcnt, wcid, wlocks, wcalls, wrets, wire>>
  /\ UNCHANGED <<rvars, cvars>>

(* variant: the buffer is flushed to the channel from inside the loop *)
WWrite_early(w) ==
  /\ wpc[w] \in {"loop", "write"}
  /\ wcalls' = Append(wcalls, [cid |-> wcid[w], data |-> wbuf[w]])
  /\ wn' = [wn EXCEPT ![w] = 0]
  /\ wpc' = [wpc EXCEPT ![w] = "writing"]
  /\ UNCHANGED <<wmu, wp, wi, wbuf, werr, wcnt, wcid, wlocks, wrets, wire>>
  /\ UNCHANGED <<rvars, cvars>>

(* s.w.Write(buf.Bytes()) is entered *)
WWrite(w) ==
  /\ wpc[w] = "write"
  /\ wcalls' = Append(wcalls, [cid |-> wcid[w], data |-> wbuf[w]])
  /\ wn' = [wn EXCEPT ![w] = 0]
  /\ wpc' = [wpc EXCEPT ![w] = "writing"]
  /\ UNCHANGED <<wmu, wp, wi, wbuf, werr, wcnt, wcid, wlocks, wrets, wire>>
  /\ UNCHANGED <<rvars, cvars>>

(* inside Write: the channel takes the next byte of the slice *)
WAccept(w) ==
  /\ wpc[w] = "writing"
  /\ wn[w] < Len(wbuf[w])
  /\ wire' = Append(wire, [b |-> wbuf[w][wn[w] + 1], cid |-> wcid[w]])
  /\ wn' = [wn EXCEPT ![w] = @ + 1]
  /\ UNCHANGED <<wmu, wpc, wp, wi, wbuf, werr, wcnt, wcid, wlocks, wcalls, wrets>>
  /\ UNCHANGED <<rvars, cvars>>

(* Write returns: nil once the whole slice is taken, an error before that *)
(* (the in-memory buffer takes every slice in full)                       *)
WWriteRet(w) ==
  /\ wpc[w] = "writing"
  /\ linked => wn[w] = Len(wbuf[w])
  /\ werr' = [werr EXCEPT ![w] = IF wn[w] = Len(wbuf[w]) THEN NoErr ELSE ErrWrite]
  /\ wpc' = [wpc EXCEPT ![w] = "ret"]
  /\ UNCHANGED <<wmu, wp, wi, wbuf, wn, wcnt, wcid, wlocks, wcalls, wrets, wire>>
  /\ UNCHANGED <<rvars, cvars>>

(* variant: the error of Write is dropped on the way out *)
WUnlock_swallow(w) ==
  /\ wpc[w] = "ret"
  /\ wmu' = 0
  /\ wrets' = Append(wrets, [cid |-> wcid[w], err |-> NoErr])
  /\ wpc' = [wpc EXCEPT ![w] = "idle"]
  /\ UNCHANGED <<wp, wi, wbuf, wn, werr, wcnt, wcid, wlocks, wcalls, wire>>
  /\ UNCHANGED <<rvars, cvars>>

(* return err, running the deferred s.mu.Unlock() *)
WUnlock(w) ==
  /\ wpc[w] = "ret"
  /\ wmu' = 0
  /\ wrets' = Append(wrets, [cid |-> wcid[w], err |-> werr[w]])
  /\ wpc' = [wpc EXCEPT ![w] = "idle"]
  /\ UNCHANGED <<wp, wi, wbuf, wn, werr, wcnt, wcid, wlocks, wcalls, wire>>
  /\ UNCHANGED <<rvars, cvars>>

(* ======================= Reader.ReadPacket ======================= *)

(* the outcomes s.r.Read(readBuf) can have on a one-byte slice *)
ChanRead ==
  IF rstream # <<>>
  THEN IF closed /\ Len(rstream) = 1 /\ endMode = "dataerr"
       THEN {[n |-> 1, b |-> Head(rstream), err |-> EOF]}
       ELSE {[n |-> 1, b |-> Head(rstream), err |-> NoErr]}
  ELSE IF closed
       THEN IF endMode = "zero"
            THEN {[n |-> 0, b |-> 0, err |-> NoErr]}
            ELSE {[n |-> 0, b |-> 0, err |-> EOF]}
       ELSE {}

(* variants of the inner switch with a plausible slip *)
Unescape_swapped(b) ==
  IF b = ESC_END THEN ESC
  ELSE IF b = ESC_ESC THEN END
  ELSE b

Unescape_strict(b) ==
  IF b = ESC_END THEN END
  ELSE IF b = ESC_ESC THEN ESC
  ELSE 0

(* the inner switch on the byte after ESC, slip.go:168-173 *)
Unescape(b) ==
  IF b = ESC_END THEN END
  ELSE IF b = ESC_ESC THEN ESC
  ELSE b

(* variant: the emptiness test is off by one *)
HasData_ge(buf) == Len(buf) >= 0

(* buf.Len() > 0, slip.go:142 *)
HasData(buf) == Len(buf) > 0

(* a goroutine calls ReadPacket() *)
RCall(r) ==
  /\ rpc[r] = "idle"
  /\ rcnt < MaxRCalls
  /\ closed
  /\ rpc' = [rpc EXCEPT ![r] = "lock"]
  /\ rcnt' = rcnt + 1
  /\ UNCHANGED <<rmu, rbuf, rerr, rcid, rnext, rlog, rtaken>>
  /\ UNCHANGED <<wvars, cvars>>

(* variant: the call does not wait for the mutex *)
RLock_nomutex(r) ==
  /\ rpc[r] = "lock"
  /\ rmu' = r
  /\ rbuf' = [rbuf EXCEPT ![r] = <<>>]
  /\ rerr' = [rerr EXCEPT ![r] = NoErr]
  /\ rnext' = rnext + 1
  /\ rcid' = [rcid EXCEPT ![r] = rnext + 1]
  /\ rpc' = [rpc EXCEPT ![r] = "read"]
  /\ UNCHANGED <<rcnt, rlog, rtaken>>
  /\ UNCHANGED <<wvars, cvars>>

(* variant: buf is kept from the previous call of the goroutine *)
RLock_keepsbuf(r) ==
  /\ rpc[r] = "lock"
  /\ rmu = 0
  /\ rmu' = r
  /\ rbuf' = rbuf
  /\ rerr' = [rerr EXCEPT ![r] = NoErr]
  /\ rnext' = rnext + 1
  /\ rcid' = [rcid EXCEPT ![r] = rnext + 1]
  /\ rpc' = [rpc EXCEPT ![r] = "read"]
  /\ UNCHANGED <<rcnt, rlog, rtaken>>
  /\ UNCHANGED <<wvars, cvars>>

(* s.mu.Lock(); n := 0; buf := &bytes.Buffer{} *)
RLock(r) ==
  /\ rpc[r] = "lock"
  /\ rmu = 0
  /\ rmu' = r
  /\ rbuf' = [rbuf EXCEPT ![r] = <<>>]
  /\ rerr' = [rerr EXCEPT ![r] = NoErr]
  /\ rnext' = rnext + 1
  /\ rcid' = [rcid EXCEPT ![r] = rnext + 1]
  /\ rpc' = [rpc EXCEPT ![r] = "read"]
  /\ UNCHANGED <<rcnt, rlog, rtaken>>
  /\ UNCHANGED <<wvars, cvars>>

(* the return statements: the result is fixed, the lock still held *)
Return(r, p, isPrefix, err) ==
  /\ rlog' = Append(rlog, [cid |-> rcid[r], who |-> r, p |-> p,
                           isPrefix |-> isPrefix, err |-> err,
                           left |-> rstream'])
  /\ rpc' = [rpc EXCEPT ![r] = "ret"]

(* variant: a complete packet is returned with one more byte taken *)
RRead_readahead(r) ==
  /\ rpc[r] = "read"
  /\ \E o \in ChanRead :
       /\ rerr' = [rerr EXCEPT ![r] = o.err]
       /\ IF o.n = 0 \/ o.err # NoErr
          THEN /\ rstream' = IF o.n = 1 THEN Tail(rstream) ELSE rstream
               /\ rtaken' = IF o.n = 1 THEN Append(rtaken, rcid[r]) ELSE rtaken
               /\ Return(r, rbuf[r], TRUE, o.err)
               /\ UNCHANGED rbuf
          ELSE IF o.b = END /\ HasData(rbuf[r]) /\ Len(rstream) >= 2
          THEN /\ rstream' = Tail(Tail(rstream))
               /\ rtaken' = rtaken \o <<rcid[r], rcid[r]>>
               /\ Return(r, rbuf[r], FALSE, o.err)
               /\ UNCHANGED rbuf
          ELSE /\ rstream' = Tail(rstream)
               /\ rtaken' = Append(rtaken, rcid[r])
               /\ IF o.b = END
                  THEN IF HasData(rbuf[r])
                       THEN /\ Return(r, rbuf[r], FALSE, o.err)
                            /\ UNCHANGED rbuf
                       ELSE UNCHANGED <<rbuf, rpc, rlog>>
                  ELSE IF o.b = ESC
                  THEN /\ rpc' = [rpc EXCEPT ![r] = "esc"]
                       /\ UNCHANGED <<rbuf, rlog>>
                  ELSE /\ rbuf' = [rbuf EXCEPT ![r] = Append(@, o.b)]
                       /\ UNCHANGED <<rpc, rlog>>
  /\ UNCHANGED <<rmu, rcnt, rcid, rnext>>
  /\ UNCHANGED <<wvars, rinit, closed, linked, endMode, wmax>>

(* variant: an END met with an empty buf is looked at but not taken *)
RRead_spins(r) ==
  /\ rpc[r] = "read"
  /\ \E o \in ChanRead :
       /\ rerr' = [rerr EXCEPT ![r] = o.err]
       /\ IF o.n = 0 \/ o.err # NoErr
          THEN /\ rstream' = IF o.n = 1 THEN Tail(rstream) ELSE rstream
               /\ rtaken' = IF o.n = 1 THEN Append(rtaken, rcid[r]) ELSE rtaken
               /\ Return(r, rbuf[r], TRUE, o.err)
               /\ UNCHANGED rbuf
          ELSE IF o.b = END /\ ~HasData(rbuf[r])
          THEN UNCHANGED <<rstream, rtaken, rbuf, rpc, rlog>>
          ELSE /\ rstream' = Tail(rstream)
               /\ rtaken' = Append(rtaken, rcid[r])
               /\ IF o.b = END
                  THEN /\ Return(r, rbuf[r], FALSE, o.err)
                       /\ UNCHANGED rbuf
                  ELSE IF o.b = ESC
                  THEN /\ rpc' = [rpc EXCEPT ![r] = "esc"]
                       /\ UNCHANGED <<rbuf, rlog>>
                  ELSE /\ rbuf' = [rbuf EXCEPT ![r] = Append(@, o.b)]
                       /\ UNCHANGED <<rpc, rlog>>
  /\ UNCHANGED <<rmu, rcnt, rcid, rnext>>
  /\ UNCHANGED <<wvars, rinit, closed, linked, endMode, wmax>>

(* top of the loop: read one byte and dispatch on it, slip.go:120-148,179 *)
RRead(r) ==
  /\ rpc[r] = "read"
  /\ \E o \in ChanRead :
       /\ rstream' = IF o.n = 1 THEN Tail(rstream) ELSE rstream
       /\ rtaken' = IF o.n = 1 THEN Append(rtaken, rcid[r]) ELSE rtaken
       /\ rerr' = [rerr EXCEPT ![r] = o.err]
       /\ IF o.n = 0 \/ o.err # NoErr
          THEN /\ Return(r, rbuf[r], TRUE, o.err)
               /\ UNCHANGED rbuf
          ELSE IF o.b = END
          THEN IF HasData(rbuf[r])
               THEN /\ Return(r, rbuf[r], FALSE, o.err)
                    /\ UNCHANGED rbuf
               ELSE UNCHANGED <<rbuf, rpc, rlog>>
          ELSE IF o.b = ESC
          THEN /\ rpc' = [rpc EXCEPT ![r] = "esc"]
               /\ UNCHANGED <<rbuf, rlog>>
          ELSE /\ rbuf' = [rbuf EXCEPT ![r] = Append(@, o.b)]
               /\ UNCHANGED <<rpc, rlog>>
  /\ UNCHANGED <<rmu, rcnt, rcid, rnext>>
  /\ UNCHANGED <<wvars, rinit, closed, linked, endMode, wmax>>

(* variant: a failed read after ESC leaves the ESC in the payload *)
REsc_keepsESC(r) ==
  /\ rpc[r] = "esc"
  /\ \E o \in ChanRead :
       /\ rstream' = IF o.n = 1 THEN Tail(rstream) ELSE rstream
       /\ rtaken' = IF o.n = 1 THEN Append(rtaken, rcid[r]) ELSE rtaken
       /\ rerr' = [rerr EXCEPT ![r] = o.err]
       /\ IF o.n = 0 \/ o.err # NoErr
          THEN /\ Return(r, Append(rbuf[r], ESC), TRUE, o.err)
               /\ UNCHANGED rbuf
          ELSE /\ rbuf' = [rbuf EXCEPT ![r] = Append(@, Unescape(o.b))]
               /\ rpc' = [rpc EXCEPT ![r] = "read"]
               /\ UNCHANGED rlog
  /\ UNCHANGED <<rmu, rcnt, rcid, rnext>>
  /\ UNCHANGED <<wvars, rinit, closed, linked, endMode, wmax>>

(* case ESC: read the next byte and store it, slip.go:155-173,179 *)
REsc(r) ==
  /\ rpc[r] = "esc"
  /\ \E o \in ChanRead :
       /\ rstream' = IF o.n = 1 THEN Tail(rstream) ELSE rstream
       /\ rtaken' = IF o.n = 1 THEN Append(rtaken, rcid[r]) ELSE rtaken
       /\ rerr' = [rerr EXCEPT ![r] = o.err]
       /\ IF o.n = 0 \/ o.err # NoErr
          THEN /\ Return(r, rbuf[r], TRUE, o.err)
               /\ UNCHANGED rbuf
          ELSE /\ rbuf' = [rbuf EXCEPT ![r] = Append(@, Unescape(o.b))]
               /\ rpc' = [rpc EXCEPT ![r] = "read"]
               /\ UNCHANGED rlog
  /\ UNCHANGED <<rmu, rcnt, rcid, rnext>>
  /\ UNCHANGED <<wvars, rinit, closed, linked, endMode, wmax>>

(* the deferred s.mu.Unlock() on the way out *)
RUnlock(r) ==
  /\ rpc[r] = "ret"
  /\ rmu' = 0
  /\ rpc' = [rpc EXCEPT ![r] = "idle"]
  /\ UNCHANGED <<rbuf, rerr, rcnt, rcid, rnext, rlog, rtaken>>
  /\ UNCHANGED <<wvars, cvars>>

(* the filled buffer becomes the reader's input channel: NewReader(buf) *)
Close ==
  /\ linked /\ ~closed
  /\ \A w \in Writers : wpc[w] = "idle"
  /\ closed' = TRUE
  /\ rinit' = rinit \o [i \in DOMAIN wire |-> wire[i].b]
  /\ rstream' = rinit'
  /\ endMode' \in EndModes
  /\ UNCHANGED <<wvars, rvars, linked, wmax>>

(* ======================= specifications ======================= *)

NextEnc ==
  \E w \in Writers :
    \/ \E p \in SeqsOver(EncByte, MaxPkt) : WCall(w, p)
    \/ WLock(w)
    \/ WLoop(w)
    \/ WEnd(w)
    \/ WWrite(w)
    \/ WAccept(w)
    \/ WWriteRet(w)
    \/ WUnlock(w)

NextDec ==
  \E r \in Readers :
    \/ RCall(r)
    \/ RLock(r)
    \/ RRead(r)
    \/ REsc(r)
    \/ RUnlock(r)

NextLink ==
  \/ \E w \in LinkWriters :
       \/ \E p \in SeqsOver(LinkByte, MaxLen) : WCall(w, p)
       \/ WLock(w)
       \/ WLoop(w)
       \/ WEnd(w)
       \/ WWrite(w)
       \/ WAccept(w)
       \/ WWriteRet(w)
       \/ WUnlock(w)
  \/ \E r \in LinkReaders :
       \/ RCall(r)
       \/ RLock(r)
       \/ RRead(r)
       \/ REsc(r)
       \/ RUnlock(r)
  \/ Close

SpecEnc == InitEnc /\ [][NextEnc]_vars
SpecDec == InitDec /\ [][NextDec]_vars

(* a goroutine that can take its next step in ReadPacket takes it: the    *)
(* channel has ended, so no Read blocks                                    *)
FairDec ==
  \A r \in Readers :
    /\ WF_vars(RLock(r))
    /\ WF_vars(RRead(r))
    /\ WF_vars(REsc(r))
    /\ WF_vars(RUnlock(r))

SpecDecLive == InitDecLive /\ [][NextDec]_vars /\ FairDec
NextStream ==
  \/ \E w \in LinkWriters :
       \/ \E p \in SeqsOver(EncByte, MaxBurstLen) : WCall(w, p)
       \/ WLock(w)
       \/ WLoop(w)
       \/ WEnd(w)
       \/ WWrite(w)
       \/ WAccept(w)
       \/ WWriteRet(w)
       \/ WUnlock(w)
  \/ \E r \in LinkReaders :
       \/ RCall(r)
       \/ RLock(r)
       \/ RRead(r)
       \/ REsc(r)
       \/ RUnlock(r)
  \/ Close

SpecLink == InitLink /\ [][NextLink]_vars
SpecStream == InitStream /\ [][NextStream]_vars
Spec == SpecLink

(* ======================= properties ======================= *)

(* the packet a Write call or a returned call belongs to *)
PacketOf(c) == wlocks[c].p

(* the channel holds exactly one frame, written by a call that succeeded *)
OneFrameOnChannel ==
  /\ linked /\ closed
  /\ Len(rinit) = Len(wire)
  /\ Len(wlocks) = 1
  /\ wrets = <<[cid |-> 1, err |-> NoErr]>>

(* C1: round trip. When the channel holds exactly the bytes written by     *)
(* WritePacket(p), the first ReadPacket on it returns a payload equal to   *)
(* p, for every p, the empty one and those holding END and ESC included.   *)
C1_RoundTrip ==
  (OneFrameOnChannel /\ rlog # <<>>) => rlog[1].p = PacketOf(1)

C1_Witness ==
  /\ OneFrameOnChannel
  /\ PacketOf(1) = <<END, ESC>>
  /\ rlog # <<>>
  /\ rlog[1].p = <<END, ESC>>

(* the frame of the wire format, section 6 of the design *)
RECURSIVE StuffedPayload(_)
StuffedPayload(p) ==
  IF p = <<>> THEN <<>>
  ELSE (CASE Head(p) = 192 -> <<219, 220>>
          [] Head(p) = 219 -> <<219, 221>>
          [] OTHER -> <<Head(p)>>) \o StuffedPayload(Tail(p))

WireFrame(p) == <<192>> \o StuffedPayload(p) \o <<192>>

(* C2: what WritePacket(p) hands to the channel is END, the stuffing of    *)
(* each payload byte in order, END; [0xC0] gives C0 DB DC C0 and [0xDB]    *)
(* gives C0 DB DD C0.                                                      *)
C2_FrameFormat ==
  \A i \in DOMAIN wcalls :
    LET p == PacketOf(wcalls[i].cid)
        d == wcalls[i].data
    IN /\ d = WireFrame(p)
       /\ p = <<192>> => d = <<192, 219, 220, 192>>
       /\ p = <<219>> => d = <<192, 219, 221, 192>>

C2_Witness ==
  \E i \in DOMAIN wcalls :
    /\ PacketOf(wcalls[i].cid) = <<219, 192>>
    /\ wcalls[i].data = <<192, 219, 221, 219, 220, 192>>

(* C3: a ReadPacket result with isPrefix = false has a non-empty payload   *)
(* and a nil error, whatever the stream and the earlier calls.             *)
C3_CompleteIsNonEmpty ==
  \A i \in DOMAIN rlog :
    ~rlog[i].isPrefix => (rlog[i].p # <<>> /\ rlog[i].err = NoErr)

C3_Witness ==
  /\ Len(rlog) >= 2
  /\ ~rlog[1].isPrefix
  /\ ~rlog[2].isPrefix

(* the bytes the channel accepted from call c, in order *)
RECURSIVE BytesOf(_, _)
BytesOf(c, s) ==
  IF s = <<>> THEN <<>>
  ELSE IF Head(s).cid = c THEN <<Head(s).b>> \o BytesOf(c, Tail(s))
  ELSE BytesOf(c, Tail(s))

IsPrefixOf(s, t) == Len(s) <= Len(t) /\ s = SubSeq(t, 1, Len(s))

(* C4: with concurrent WritePacket calls on one Writer, at most one call   *)
(* is inside the write to the channel, the Write calls happen in the order *)
(* the calls acquired the lock, and the channel receives the frames one    *)
(* after another: bytes of two frames are never interleaved.               *)
C4_WriteSerialized ==
  /\ Cardinality({w \in Writers : wpc[w] = "writing"}) <= 1
  /\ \A i \in DOMAIN wcalls : wcalls[i].cid = i
  /\ \A i, j \in DOMAIN wire : i < j => wire[i].cid <= wire[j].cid
  /\ \A c \in DOMAIN wcalls : IsPrefixOf(BytesOf(c, wire), wcalls[c].data)
  /\ \A k \in DOMAIN wrets :
       wrets[k].err = NoErr =>
         BytesOf(wrets[k].cid, wire) = wcalls[wrets[k].cid].data

C4_Witness ==
  /\ Len(wrets) = 2
  /\ wlocks[1].who = 2 /\ wlocks[2].who = 1
  /\ wrets[1].err = NoErr /\ wrets[2].err = NoErr
  /\ wlocks[1].p = <<END>> /\ wlocks[2].p = <<0>>
  /\ Len(wire) = 7

(* C5: with concurrent ReadPacket calls on one Reader, the bytes one call  *)
(* consumes form one contiguous run of the stream: no byte read by another *)
(* call lies between two bytes read by the same call.                      *)
C5_ReadContiguous ==
  \A i, j, k \in DOMAIN rtaken :
    (i < j /\ j < k /\ rtaken[i] = rtaken[k]) => rtaken[j] = rtaken[i]

C5_Witness ==
  \E r1, r2 \in Readers :
    /\ r1 # r2
    /\ rpc[r1] = "lock"
    /\ rpc[r2] = "esc"
    /\ Len(rtaken) >= 3
    /\ rtaken[1] # rtaken[Len(rtaken)]
    /\ rlog # <<>> /\ rlog[1].who = r1

NumWrites(c) == Cardinality({i \in DOMAIN wcalls : wcalls[i].cid = c})

(* C6: each WritePacket call makes exactly one Write call on the channel,  *)
(* and only once the whole frame (leading END, stuffed payload, trailing   *)
(* END) is in the buffer: the channel is never handed part of a frame.     *)
C6_SingleWholeWrite ==
  /\ \A c \in DOMAIN wlocks : NumWrites(c) <= 1
  /\ \A k \in DOMAIN wrets : NumWrites(wrets[k].cid) = 1
  /\ \A w \in Writers : wpc[w] \in {"loop", "write"} => NumWrites(wcid[w]) = 0
  /\ \A i \in DOMAIN wcalls :
       LET d == wcalls[i].data
           p == PacketOf(wcalls[i].cid)
       IN /\ Len(d) >= Len(p) + 2
          /\ Head(d) = END /\ Last(d) = END
  /\ \A w \in Writers : wpc[w] = "writing" =>
       (wi[w] > Len(wp[w]) /\ wcalls[Len(wcalls)].data = wbuf[w])

C6_Witness ==
  /\ Len(wrets) = 2
  /\ NumWrites(1) = 1 /\ NumWrites(2) = 1
  /\ wlocks[1].p = <<0>> /\ wlocks[2].p = <<>>
  /\ wcalls[1].data = <<END, 0, END>>

(* C7: when the input channel ends (zero-byte read or read error) after   *)
(* some payload bytes were accumulated and before the trailing END,        *)
(* ReadPacket returns exactly the accumulated bytes with isPrefix = true   *)
(* and a non-nil error.                                                    *)
C7_TruncationSignaled ==
  /\ \A r \in Readers : rpc[r] = "ret" => rlog[Len(rlog)].p = rbuf[r]
  /\ \A i \in DOMAIN rlog :
       (rlog[i].isPrefix /\ rlog[i].p # <<>>) => rlog[i].err # NoErr

(* the read after an ESC delivers byte x and no error *)
EscReadGets(x) ==
  ChanRead = {[n |-> 1, b |-> x, err |-> NoErr]}

(* C8: escape leniency. When the byte X read after an ESC is neither       *)
(* ESC_END nor ESC_ESC (X = END and X = ESC included), ReadPacket appends  *)
(* X itself to the payload, raises no error and goes on with the loop of   *)
(* the same packet.                                                        *)
C8_EscapeLenient ==
  [][\A r \in Readers : \A x \in Byte \ {ESC_END, ESC_ESC} :
       (rpc[r] = "esc" /\ EscReadGets(x) /\ rpc'[r] # "esc") =>
         /\ rbuf'[r] = Append(rbuf[r], x)
         /\ rpc'[r] = "read"
         /\ rerr'[r] = NoErr
         /\ rlog' = rlog
         /\ rmu' = r]_vars

C8_Witness ==
  /\ rinit = <<ESC, END, 0, END>>
  /\ rlog # <<>>
  /\ rlog[1].p = <<END, 0>>
  /\ ~rlog[1].isPrefix
  /\ rlog[1].err = NoErr

AllEND(s) == Len(s) >= 1 /\ \A i \in DOMAIN s : s[i] = END

(* C9: empty-frame suppression. On a stream made only of END bytes no      *)
(* ReadPacket call returns a complete packet: the reader skips every END   *)
(* and, with the stream exhausted, returns an empty payload with           *)
(* isPrefix = true.                                                        *)
C9_EmptyFramesSuppressed ==
  AllEND(rinit) =>
    \A i \in DOMAIN rlog :
      /\ rlog[i].isPrefix
      /\ rlog[i].p = <<>>
      /\ rlog[i].left = <<>>

C9_Witness ==
  /\ rinit = <<END, END>>
  /\ Len(rlog) >= 2
  /\ rlog[1].isPrefix /\ rlog[1].p = <<>>
  /\ rtaken = <<1, 1>>

(* no byte of R stands in s outside a two-byte sequence opened by ESC *)
RECURSIVE NoneBare(_, _)
NoneBare(s, R) ==
  IF s = <<>> THEN TRUE
  ELSE IF Head(s) = ESC /\ Len(s) >= 2 THEN NoneBare(Tail(Tail(s)), R)
  ELSE IF Head(s) \in R THEN FALSE
  ELSE NoneBare(Tail(s), R)

Inner(d) == SubSeq(d, 2, Len(d) - 1)

(* C10 as stated: none of END, ESC, ESC_END, ESC_ESC appears unescaped     *)
(* (other than as the first or last END, or inside a two-byte sequence     *)
(* opened by ESC) in the frame WritePacket produces.                       *)
C10_AllReservedEscaped ==
  \A i \in DOMAIN wcalls :
    NoneBare(Inner(wcalls[i].data), {END, ESC, ESC_END, ESC_ESC})

(* C10: in the frame WritePacket produces, neither END nor ESC appears     *)
(* unescaped (other than as the first or last END, or inside a two-byte    *)
(* sequence opened by ESC); payload bytes ESC_END and ESC_ESC are sent as  *)
(* they are.                                                               *)
C10_EndEscEscaped ==
  \A i \in DOMAIN wcalls :
    LET d == wcalls[i].data
        p == PacketOf(wcalls[i].cid)
    IN /\ NoneBare(Inner(d), {END, ESC})
       /\ \A b \in {ESC_END, ESC_ESC} : p = <<b>> => d = <<END, b, END>>

C10_Witness ==
  \E i \in DOMAIN wcalls :
    /\ PacketOf(wcalls[i].cid) = <<END, ESC_END>>
    /\ wcalls[i].data = <<END, ESC, ESC_END, ESC_END, END>>

(* C11: when the Write of the channel fails, WritePacket returns that     *)
(* error as it is, makes no second Write, and releases the lock, so that a  *)
(* later WritePacket call can proceed.                                      *)
C11_WriteErrorSurfaced ==
  /\ \A k \in DOMAIN wrets :
       LET c == wrets[k].cid
       IN /\ BytesOf(c, wire) # wcalls[c].data => wrets[k].err = ErrWrite
          /\ wrets[k].err = ErrWrite =>
               /\ NumWrites(c) = 1
               /\ IsPrefixOf(BytesOf(c, wire), wcalls[c].data)
               /\ BytesOf(c, wire) # wcalls[c].data
  /\ \A w \in Writers :
       (wpc[w] = "idle" /\ wcid[w] > 0) =>
         \E k \in DOMAIN wrets : wrets[k].cid = wcid[w] /\ wrets[k].err = werr[w]
  /\ \A w \in Writers : wpc[w] \in {"idle", "lock"} => wmu # w
  /\ (\A w \in Writers : wpc[w] \in {"idle", "lock"}) => wmu = 0

C11_Witness ==
  /\ Len(wrets) = 2
  /\ wrets[1].err = ErrWrite
  /\ BytesOf(1, wire) = <<END>>
  /\ wrets[2].err = NoErr
  /\ BytesOf(2, wire) = wcalls[2].data

(* C12: when the read of the byte after an ESC fails or yields no byte,    *)
(* ReadPacket stops and returns the payload accumulated before the ESC     *)
(* (the ESC adds nothing) with isPrefix = true and the error of that read, *)
(* unchanged.                                                              *)
C12_DanglingEscape ==
  [][\A r \in Readers :
       /\ (rpc[r] = "read" /\ rpc'[r] = "esc") => rbuf'[r] = rbuf[r]
       /\ (rpc[r] = "esc" /\ rpc'[r] # "esc"
             /\ \E o \in ChanRead : o.n = 0 \/ o.err # NoErr) =>
            /\ rpc'[r] = "ret"
            /\ Len(rlog') = Len(rlog) + 1
            /\ rlog'[Len(rlog')].p = rbuf[r]
            /\ rlog'[Len(rlog')].isPrefix
            /\ \A o \in ChanRead : rlog'[Len(rlog')].err = o.err]_vars

C12_Witness ==
  /\ rinit = <<0, ESC>>
  /\ endMode = "eof"
  /\ rlog # <<>>
  /\ rlog[1].p = <<0>>
  /\ rlog[1].isPrefix
  /\ rlog[1].err = EOF

(* the positions of the input stream whose byte call c took and used: a  *)
(* byte that came together with an error is taken but not used             *)
UsedBy(c) ==
  {j \in DOMAIN rtaken :
     /\ rtaken[j] = c
     /\ ~(endMode = "dataerr" /\ j = Len(rinit))}

RECURSIVE Pick(_, _, _)
Pick(s, J, j) ==
  IF j > Len(s) THEN <<>>
  ELSE (IF j \in J THEN <<s[j]>> ELSE <<>>) \o Pick(s, J, j + 1)

(* the payload a run of stream bytes stands for, by the wire format *)
RECURSIVE Decoded(_)
Decoded(s) ==
  IF s = <<>> THEN <<>>
  ELSE IF Head(s) = 192 THEN Decoded(Tail(s))
  ELSE IF Head(s) = 219
       THEN IF Len(s) = 1 THEN <<>>
            ELSE <<(CASE s[2] = 220 -> 192 [] s[2] = 221 -> 219 [] OTHER -> s[2])>>
                   \o Decoded(Tail(Tail(s)))
  ELSE <<Head(s)>> \o Decoded(Tail(s))

(* C15: no decoder state survives a call. Every ReadPacket starts with an  *)
(* empty buffer: the payload a call returns is made only of the bytes that *)
(* call itself read, so bytes returned as a partial payload never come     *)
(* back in, or in front of, the payload of a later call.                   *)
C15_NoStateAcrossCalls ==
  \A i \in DOMAIN rlog :
    rlog[i].p = Decoded(Pick(rinit, UsedBy(rlog[i].cid), 1))

C15_Witness ==
  /\ Len(rlog) >= 2
  /\ rlog[1].who = rlog[2].who
  /\ rlog[1].isPrefix /\ rlog[1].p = <<END, 0>>
  /\ rlog[2].p = <<>>

(* the position of the last byte taken when result e was returned *)
LastTaken(e) == Len(rinit) - Len(e.left)

(* C17: ReadPacket never reads ahead. When it returns a complete packet    *)
(* the last byte it took is the END that ended the packet; every byte      *)
(* after that END is still unread and goes to a later call.                *)
C17_NoReadAhead ==
  \A i \in DOMAIN rlog :
    ~rlog[i].isPrefix =>
      LET k == LastTaken(rlog[i])
      IN /\ k \in DOMAIN rinit
         /\ rinit[k] = END
         /\ rtaken[k] = rlog[i].cid
         /\ rlog[i].left = SubSeq(rinit, k + 1, Len(rinit))
         /\ \A j \in DOMAIN rtaken : j > k => rtaken[j] > rlog[i].cid

C17_Witness ==
  /\ rinit = <<0, END, ESC_END, END>>
  /\ Len(rlog) >= 2
  /\ rlog[1].p = <<0>> /\ rlog[1].left = <<ESC_END, END>>
  /\ rlog[2].p = <<ESC_END>> /\ ~rlog[2].isPrefix

Count(s, B) == Cardinality({j \in DOMAIN s : s[j] \in B})

(* C18: in every frame WritePacket hands to the channel, END stands at the *)
(* first and the last position and nowhere else, every ESC is followed at  *)
(* once by ESC_END or ESC_ESC, and the frame is len(p) + 2 + the number of *)
(* END and ESC bytes of p long.                                            *)
C18_FrameWellFormed ==
  \A i \in DOMAIN wcalls :
    LET d == wcalls[i].data
        p == PacketOf(wcalls[i].cid)
    IN /\ {j \in DOMAIN d : d[j] = 192} = {1, Len(d)}
       /\ Len(d) >= 2
       /\ \A j \in DOMAIN d :
            d[j] = 219 => (j < Len(d) /\ d[j + 1] \in {220, 221})
       /\ Len(d) = Len(p) + 2 + Count(p, {192, 219})

C18_Witness ==
  \E i \in DOMAIN wcalls :
    /\ PacketOf(wcalls[i].cid) = <<ESC, ESC_ESC>>
    /\ wcalls[i].data = <<END, ESC, ESC_ESC, ESC_ESC, END>>

(* goroutine r takes a step of the read loop *)
LoopStep(r) ==
  /\ rpc[r] \in {"read", "esc"}
  /\ <<rpc[r], rbuf[r], rstream, rtaken, rlog>>' # <<rpc[r], rbuf[r], rstream, rtaken, rlog>>

(* C16: on a channel that delivers finitely many bytes and then signals    *)
(* end of data, ReadPacket terminates: each loop iteration takes a byte    *)
(* or returns, and a call that entered the loop returns, with a complete   *)
(* packet or a prefix result, also on a stream of END bytes only.          *)
C16_Terminates ==
  /\ [][\A r \in Readers :
          LoopStep(r) => (Len(rstream') < Len(rstream) \/ rpc'[r] = "ret")]_vars
  /\ \A r \in Readers : (rpc[r] = "read") ~> (rpc[r] = "ret")

C16_Witness ==
  /\ rinit = <<END, END, END, END>>
  /\ endMode = "zero"
  /\ Len(rtaken) = 4
  /\ \E r \in Readers : rpc[r] = "ret" /\ rcid[r] = 1


(* the bytes that sat in the buffer before the writer's frames *)
Noise == SubSeq(rinit, 1, Len(rinit) - Len(wire))

(* the noise ends inside an escape sequence: its last byte is an ESC that   *)
(* is not itself the second byte of one                                     *)
RECURSIVE Dangling(_)
Dangling(s) ==
  IF s = <<>> THEN FALSE
  ELSE IF Head(s) = 219 THEN (Len(s) = 1 \/ Dangling(Tail(Tail(s))))
  ELSE Dangling(Tail(s))

(* noise without END, then the one frame of a non-empty packet, on a       *)
(* channel whose end of data is a zero-byte read                            *)
OneFrameAfterNoise ==
  /\ linked /\ closed
  /\ endMode # "dataerr"
  /\ Len(wlocks) = 1
  /\ PacketOf(1) # <<>>
  /\ \A j \in DOMAIN Noise : Noise[j] # 192

IsThePacket(e) == e.p = PacketOf(1) /\ ~e.isPrefix /\ e.err = NoErr

NoiseThenPacket ==
  IF Noise = <<>>
  THEN Len(rlog) >= 1 => IsThePacket(rlog[1])
  ELSE /\ Len(rlog) >= 1 => (rlog[1].p = Decoded(Noise) /\ ~rlog[1].isPrefix)
       /\ Len(rlog) >= 2 => IsThePacket(rlog[2])

====
